---- MODULE Spec2Model ----
(***************************************************************************)
(* AbodeX backend: the guest booking workflow (create booking with price   *)
(* and discount computation, payment confirmation with availability push,  *)
(* review creation) and the host booking-status update, over the shared    *)
(* document store; the route guards, the host routes behind them, the      *)
(* become-host handler, the admin host list with its ranking tags, and the *)
(* property search.                                                        *)
(*                                                                         *)
(* Dates are integers counted in ticks, TicksPerDay ticks to a day, so     *)
(* that the ceiling in the night count is exercised.  Money is kept in     *)
(* hundredths of the currency unit: a nightly rate r is 100*r hundredths,  *)
(* a percentage discount of v on a raw total of t units is t*v hundredths. *)
(***************************************************************************)
EXTENDS Integers, Sequences, FiniteSets, TLC

VARIABLES properties, bookings, reviews, intents, req, last,
          users, hosts, listed, gate, found, issued

\* users, host profiles, the responses of the admin host list, the route
\* guards and the property search, and the auth tokens issued so far
aux == <<users, hosts, listed, gate, found, issued>>

vars == <<properties, bookings, reviews, intents, req, last,
          users, hosts, listed, gate, found, issued>>

-----------------------------------------------------------------------------
(* Bounds and input sets *)

TicksPerDay == 2
MaxTick == 4
MaxDiscounts == 2
MaxBookings == 2
MaxPushes == 2
MaxReviews == 2

Guests == {"g1", "g2"}
HostUsers == {"h1", "h2"}
Admins == {"a1"}
PropertyIds == {"p1", "p2"}
NoSuchId == "none"
Slots == {"r1", "r2"}
ConfirmSlots == {"r1"}

Ticks == 0..MaxTick
Prices == {40, 100}
DiscountValues == {10, 150}
MinNightsValues == {0, 2}
DiscountWindows == {<<0, MaxTick>>, <<1, MaxTick - 1>>}

Discounts ==
  {[discountType |-> t, value |-> v, minNights |-> m,
    validFrom |-> w[1], validUntil |-> w[2]] :
     t \in {"percentage", "fixed"}, v \in DiscountValues,
     m \in MinNightsValues, w \in DiscountWindows}

DiscountLists == UNION {[1..n -> Discounts] : n \in 0..MaxDiscounts}

-----------------------------------------------------------------------------
(* Pure helpers of the create-booking handler *)

\* Math.ceil(a / d) for d > 0
CeilDiv(a, d) == -((-a) \div d)

Nights(checkIn, checkOut) == CeilDiv(checkOut - checkIn, TicksPerDay)

IsApplicableIgnoringMinNights(d, checkIn, checkOut, nights) ==
  /\ d.validFrom <= checkIn
  /\ d.validUntil >= checkOut

\* the filter predicate of applicableDiscounts
IsApplicable(d, checkIn, checkOut, nights) ==
  /\ d.validFrom <= checkIn
  /\ d.validUntil >= checkOut
  /\ (d.minNights = 0 \/ nights >= d.minNights)

\* indices (in list order) of the discounts kept by the filter
RECURSIVE FilterIdx(_, _, _, _, _)
FilterIdx(ds, k, checkIn, checkOut, nights) ==
  IF k > Len(ds) THEN <<>>
  ELSE (IF IsApplicable(ds[k], checkIn, checkOut, nights) THEN <<k>> ELSE <<>>)
       \o FilterIdx(ds, k + 1, checkIn, checkOut, nights)

ApplicableDiscounts(ds, checkIn, checkOut, nights) ==
  FilterIdx(ds, 1, checkIn, checkOut, nights)

\* the amount a discount takes off totalAmount (units), in hundredths
DiscountValue(d, totalAmount) ==
  IF d.discountType = "percentage" THEN totalAmount * d.value
  ELSE d.value * 100

BetterLastWins(ds, totalAmount, prev, current) ==
  IF DiscountValue(ds[current], totalAmount) >= DiscountValue(ds[prev], totalAmount)
  THEN current ELSE prev

\* the reduce callback: current replaces prev only when strictly larger
Better(ds, totalAmount, prev, current) ==
  IF DiscountValue(ds[current], totalAmount) > DiscountValue(ds[prev], totalAmount)
  THEN current ELSE prev

\* Array.prototype.reduce without an initial value, left to right
RECURSIVE ReduceFrom(_, _, _, _, _)
ReduceFrom(ds, totalAmount, idx, k, prev) ==
  IF k > Len(idx) THEN prev
  ELSE ReduceFrom(ds, totalAmount, idx, k + 1, Better(ds, totalAmount, prev, idx[k]))

BestDiscount(ds, totalAmount, idx) == ReduceFrom(ds, totalAmount, idx, 2, idx[1])

-----------------------------------------------------------------------------
(* Responses *)

NoReq == [kind |-> "idle", pc |-> "idle", caller |-> NoSuchId, bid |-> 0,
          pid |-> NoSuchId, docStatus |-> "none", docPayment |-> "none",
          clobbered |-> FALSE, after |-> FALSE, gateway |-> "none"]

\* a bearer token: the user id it was signed for and the secret it was
\* signed with; "forged" stands for any token neither secret verifies
NoToken == [id |-> NoSuchId, secret |-> "none"]

Resp(op, code, caller, bid, pid) ==
  [op |-> op, code |-> code, caller |-> caller, bid |-> bid, pid |-> pid,
   checkIn |-> 0, checkOut |-> 0, applied |-> 0, intent |-> 0,
   sms |-> "none", clobbered |-> FALSE, gateway |-> "none", token |-> NoToken]

NoResp == Resp("none", 0, NoSuchId, 0, NoSuchId)

\* a handler reached an await point and has sent no response yet
Await == Resp("await", 0, NoSuchId, 0, NoSuchId)

\* the process stopped with a handler at an await point: no response
Stopped == Resp("crash", 0, NoSuchId, 0, NoSuchId)

Exists(bid) == bid \in 1..Len(bookings)

-----------------------------------------------------------------------------
(* POST /bookings *)

NewBooking(g, pid, checkIn, checkOut, totalAmount, discountAmount, intentId) ==
  [guest |-> g, property |-> pid, checkIn |-> checkIn, checkOut |-> checkOut,
   totalAmount |-> totalAmount, discountAmount |-> discountAmount,
   status |-> "pending", paymentStatus |-> "pending",
   paymentIntentId |-> intentId, transactionId |-> 0]

CreateBooking(g, pid, checkIn, checkOut, gatewayOk) ==
  IF pid \notin PropertyIds
  THEN /\ last' = [Resp("create", 404, g, 0, pid)
                     EXCEPT !.checkIn = checkIn, !.checkOut = checkOut]
       /\ UNCHANGED <<properties, bookings, reviews, intents, req>>
  ELSE
    LET property == properties[pid]
        nights == Nights(checkIn, checkOut)
        rawTotal == nights * property.pricePerNight
        idx == ApplicableDiscounts(property.discounts, checkIn, checkOut, nights)
        best == IF Len(idx) > 0 THEN BestDiscount(property.discounts, rawTotal, idx)
                ELSE 0
        discountAmount == IF best = 0 THEN 0
                          ELSE DiscountValue(property.discounts[best], rawTotal)
        totalAmount == rawTotal * 100 - discountAmount
    IN IF ~gatewayOk
       THEN /\ last' = [Resp("create", 500, g, 0, pid)
                          EXCEPT !.checkIn = checkIn, !.checkOut = checkOut]
            /\ UNCHANGED <<properties, bookings, reviews, intents, req>>
       ELSE /\ intents' = Append(intents, totalAmount)
            /\ bookings' = Append(bookings,
                 NewBooking(g, pid, checkIn, checkOut, totalAmount,
                            discountAmount, Len(intents) + 1))
            /\ last' = [Resp("create", 200, g, Len(bookings) + 1, pid)
                          EXCEPT !.checkIn = checkIn, !.checkOut = checkOut,
                                 !.applied = best, !.intent = Len(intents) + 1]
            /\ UNCHANGED <<properties, reviews, req>>

-----------------------------------------------------------------------------
(* POST /bookings/:id/confirm *)

GatewayStatuses == {"succeeded", "requires_payment_method", "error"}

\* booking.save(): only the paths whose assigned value differs from the
\* document as read are written
ConfirmWrites(b, r) ==
  [b EXCEPT !.status = IF r.docStatus # "confirmed" THEN "confirmed" ELSE @,
            !.paymentStatus = IF r.docPayment # "paid" THEN "paid" ELSE @,
            !.transactionId = IF r.docPayment # "paid" THEN b.paymentIntentId ELSE @]

Overlaps(e, b) == e.startDate < b.checkOut /\ b.checkIn < e.endDate

Min(a, b) == IF a < b THEN a ELSE b

Max(a, b) == IF a > b THEN a ELSE b

PushWindowOnce(availability, b) ==
  IF \E k \in 1..Len(availability) :
       availability[k] =
         [startDate |-> b.checkIn, endDate |-> b.checkOut, isAvailable |-> FALSE]
  THEN availability
  ELSE Append(availability,
              [startDate |-> b.checkIn, endDate |-> b.checkOut, isAvailable |-> FALSE])

PushWindowMerging(availability, b) ==
  IF \E k \in 1..Len(availability) : Overlaps(availability[k], b)
  THEN LET k == CHOOSE k \in 1..Len(availability) : Overlaps(availability[k], b)
       IN [availability EXCEPT ![k].startDate = Min(@, b.checkIn),
                               ![k].endDate = Max(@, b.checkOut)]
  ELSE Append(availability,
              [startDate |-> b.checkIn, endDate |-> b.checkOut, isAvailable |-> FALSE])

\* the $push of the booked window
PushWindow(availability, b) ==
  Append(availability,
         [startDate |-> b.checkIn, endDate |-> b.checkOut, isAvailable |-> FALSE])

PaymentNotFailed(status) == status # "error"

\* paymentIntent.status === "succeeded"
PaymentSucceeded(status) == status = "succeeded"

\* findById, the ownership check and the gateway lookup; the slot and the
\* response keep the status the gateway reported
ConfirmRead(s, g, bid, gateway) ==
  /\ req[s].pc = "idle"
  /\ IF ~Exists(bid) \/ bookings[bid].guest # g
     THEN /\ last' = Resp("confirm", 404, g, bid, NoSuchId)
          /\ UNCHANGED req
     ELSE IF gateway = "error"
     THEN /\ last' = [Resp("confirm", 500, g, bid, bookings[bid].property)
                        EXCEPT !.gateway = gateway]
          /\ UNCHANGED req
     ELSE IF ~PaymentSucceeded(gateway)
     THEN /\ last' = [Resp("confirm", 400, g, bid, bookings[bid].property)
                        EXCEPT !.gateway = gateway]
          /\ UNCHANGED req
     ELSE /\ req' = [req EXCEPT ![s] =
                [kind |-> "confirm", pc |-> "save", caller |-> g, bid |-> bid,
                 pid |-> bookings[bid].property,
                 docStatus |-> bookings[bid].status,
                 docPayment |-> bookings[bid].paymentStatus,
                 clobbered |-> FALSE, after |-> FALSE, gateway |-> gateway]]
          /\ last' = Await
  /\ UNCHANGED <<properties, bookings, reviews, intents>>

ConfirmSavePushesFirst(s) ==
  /\ req[s].kind = "confirm" /\ req[s].pc = "save"
  /\ properties' = [properties EXCEPT ![req[s].pid].availability =
                      Append(@, [startDate |-> bookings[req[s].bid].checkIn,
                                 endDate |-> bookings[req[s].bid].checkOut,
                                 isAvailable |-> FALSE])]
  /\ req' = [req EXCEPT ![s].pc = "push"]
  /\ last' = Await
  /\ UNCHANGED <<bookings, reviews, intents>>

ConfirmSave(s) ==
  /\ req[s].kind = "confirm" /\ req[s].pc = "save"
  /\ bookings' = [bookings EXCEPT ![req[s].bid] = ConfirmWrites(@, req[s])]
  /\ req' = [req EXCEPT ![s].pc = "push"]
  /\ last' = Await
  /\ UNCHANGED <<properties, reviews, intents>>

ConfirmPush(s) ==
  /\ req[s].kind = "confirm" /\ req[s].pc = "push"
  /\ properties' = [properties EXCEPT ![req[s].pid].availability =
                      PushWindow(@, bookings[req[s].bid])]
  /\ req' = [req EXCEPT ![s].pc = "sms"]
  /\ last' = Await
  /\ UNCHANGED <<bookings, reviews, intents>>

ConfirmCodeSmsUncaught(smsOk) == IF smsOk THEN 200 ELSE 500

\* the response after the SMS attempt, whose failure is caught
ConfirmCode(smsOk) == 200

ConfirmRespond(s, smsOk) ==
  /\ req[s].kind = "confirm" /\ req[s].pc = "sms"
  /\ last' = [Resp("confirm", ConfirmCode(smsOk), req[s].caller, req[s].bid, req[s].pid)
                EXCEPT !.sms = IF smsOk THEN "sent" ELSE "failed",
                       !.clobbered = req[s].clobbered]
  /\ req' = [req EXCEPT ![s] = NoReq]
  /\ UNCHANGED <<properties, bookings, reviews, intents>>

\* the process stops while a handler is at an await point
Crash(s) ==
  /\ req[s].pc # "idle"
  /\ last' = Stopped
  /\ req' = [req EXCEPT ![s] = NoReq]
  /\ UNCHANGED <<properties, bookings, reviews, intents>>

-----------------------------------------------------------------------------
(* PATCH /bookings/:id  (host) *)

HostStatuses == {"confirmed", "cancelled", "completed"}

HostProperties(h) == {p \in PropertyIds : properties[p].host = h}

OwnsAnyBooking(h, bid) == Exists(bid)

\* Booking.findOne({ _id, property: { $in: own properties } })
OwnsBooking(h, bid) == Exists(bid) /\ bookings[bid].property \in HostProperties(h)

HostWritesRefunding(b, status) ==
  [b EXCEPT !.status = status,
            !.paymentStatus = IF status = "cancelled" THEN "refunded" ELSE @]

\* booking.status = req.body.status; booking.save()
HostWrites(b, status) == [b EXCEPT !.status = status]

HostUpdateBooking(h, bid, status) ==
  IF ~OwnsBooking(h, bid)
  THEN /\ last' = Resp("hostUpdate", 404, h, bid, NoSuchId)
       /\ UNCHANGED <<properties, bookings, reviews, intents, req>>
  ELSE /\ bookings' = [bookings EXCEPT ![bid] = HostWrites(@, status)]
       /\ req' = [s \in Slots |->
                    IF req[s].kind = "confirm" /\ req[s].bid = bid
                    THEN [req[s] EXCEPT !.clobbered = TRUE] ELSE req[s]]
       /\ last' = Resp("hostUpdate", 200, h, bid, bookings[bid].property)
       /\ UNCHANGED <<properties, reviews, intents>>

-----------------------------------------------------------------------------
(* POST /reviews *)

FindBookingAnyStatus(g, bid, pid) ==
  /\ Exists(bid)
  /\ bookings[bid].guest = g
  /\ bookings[bid].property = pid

\* Booking.findOne({_id, guest, property, status: "completed"})
FindCompletedBooking(g, bid, pid) ==
  /\ Exists(bid)
  /\ bookings[bid].guest = g
  /\ bookings[bid].property = pid
  /\ bookings[bid].status = "completed"

\* Review.findOne({booking})
ExistingReview(bid) == \E i \in 1..Len(reviews) : reviews[i].booking = bid

ReviewFindBooking(s, g, bid, pid) ==
  /\ req[s].pc = "idle"
  /\ IF ~FindCompletedBooking(g, bid, pid)
     THEN /\ last' = Resp("review", 404, g, bid, pid)
          /\ UNCHANGED req
     ELSE /\ req' = [req EXCEPT ![s] =
                [NoReq EXCEPT !.kind = "review", !.pc = "findReview",
                              !.caller = g, !.bid = bid, !.pid = pid,
                              !.after = ExistingReview(bid)]]
          /\ last' = Resp("review.booking", 0, g, bid, pid)
  /\ UNCHANGED <<properties, bookings, reviews, intents>>

ReviewFindExisting(s) ==
  /\ req[s].kind = "review" /\ req[s].pc = "findReview"
  /\ IF ExistingReview(req[s].bid)
     THEN /\ last' = Resp("review", 400, req[s].caller, req[s].bid, req[s].pid)
          /\ req' = [req EXCEPT ![s] = NoReq]
     ELSE /\ last' = Resp("review.existing", 0, req[s].caller, req[s].bid, req[s].pid)
          /\ req' = [req EXCEPT ![s].pc = "save"]
  /\ UNCHANGED <<properties, bookings, reviews, intents>>

ReviewSave(s) ==
  /\ req[s].kind = "review" /\ req[s].pc = "save"
  /\ reviews' = Append(reviews, [guest |-> req[s].caller, property |-> req[s].pid,
                                 booking |-> req[s].bid, hostReply |-> "none"])
  /\ last' = Resp("review", 201, req[s].caller, req[s].bid, req[s].pid)
  /\ req' = [req EXCEPT ![s] = NoReq]
  /\ UNCHANGED <<properties, bookings, intents>>

-----------------------------------------------------------------------------
(* Initial states *)

Property(host, price, discounts) ==
  [host |-> host, pricePerNight |-> price, discounts |-> discounts,
   availability |-> <<>>, type |-> "apartment",
   city |-> <<"P", "a", "r", "i", "s">>, amenities |-> {"wifi"},
   maxGuests |-> 4, isActive |-> TRUE]

InitStore ==
  /\ bookings = <<>>
  /\ reviews = <<>>
  /\ intents = <<>>
  /\ req = [s \in Slots |-> NoReq]
  /\ last = NoResp

\* the last request met by a route guard: the guard, the bearer token, the
\* guard's verdict, and whether the payload passes the route's validators
NoGate == [guard |-> "none", token |-> "none", ok |-> FALSE, valid |-> TRUE]

\* no search has been answered yet
NoSearch ==
  [query |-> <<>>, properties |-> <<>>, total |-> 0, totalPages |-> 0, currentPage |-> 0]

\* no host list has been answered yet
NoListing == [hosts |-> <<>>, total |-> 0, totalPages |-> 0, currentPage |-> 0]

HostProfile(u, earnings) == [user |-> u, earnings |-> earnings, hostTag |-> "none"]

SeedUsers ==
  [u \in Guests \cup HostUsers \cup Admins |->
     IF u \in Guests THEN "guest" ELSE IF u \in HostUsers THEN "host" ELSE "admin"]

\* the seeded accounts: guests, the two hosts with their profiles, an admin
InitAccounts ==
  /\ users = SeedUsers
  /\ hosts = <<HostProfile("h1", 0), HostProfile("h2", 0)>>
  /\ listed = NoListing
  /\ gate = NoGate
  /\ found = NoSearch
  /\ issued = {}

\* pricing: one empty store per nightly rate and discount list of p1
PriceInit ==
  /\ InitStore
  /\ InitAccounts
  /\ \E price \in Prices, ds \in DiscountLists :
       properties = [p \in PropertyIds |->
                       IF p = "p1" THEN Property("h1", price, ds)
                       ELSE Property("h2", 100, <<>>)]

PriceNext ==
  /\ bookings = <<>>
  /\ last = NoResp
  /\ \E g \in {"g1"}, pid \in {"p1", NoSuchId}, checkIn \in Ticks, checkOut \in Ticks,
        gatewayOk \in BOOLEAN :
       CreateBooking(g, pid, checkIn, checkOut, gatewayOk)
  /\ UNCHANGED aux

PriceSpec == PriceInit /\ [][PriceNext]_vars

-----------------------------------------------------------------------------
(* Booking workflow: two seeded properties, bookings created, confirmed by *)
(* their guests and updated by the hosts, with handlers interleaving at    *)
(* their await points.                                                     *)

\* the create-booking requests issued: two overlapping stays at p1
WorkflowRequests ==
  {[guest |-> "g1", property |-> "p1", checkIn |-> 0, checkOut |-> 2],
   [guest |-> "g2", property |-> "p1", checkIn |-> 1, checkOut |-> 3]}

SeedDiscount ==
  [discountType |-> "percentage", value |-> 10, minNights |-> 0,
   validFrom |-> 0, validUntil |-> MaxTick]

Init ==
  /\ InitStore
  /\ InitAccounts
  /\ properties = [p \in PropertyIds |->
                     IF p = "p1" THEN Property("h1", 100, <<SeedDiscount>>)
                     ELSE Property("h2", 40, <<>>)]

\* availability entries stored or about to be pushed
Pushes ==
  Len(properties["p1"].availability) + Len(properties["p2"].availability)
    + Cardinality({s \in Slots : req[s].kind = "confirm"
                                  /\ req[s].pc \in {"save", "push"}})

DoCreate ==
  /\ Len(bookings) < MaxBookings
  /\ \E r \in WorkflowRequests :
       CreateBooking(r.guest, r.property, r.checkIn, r.checkOut, TRUE)
  /\ UNCHANGED aux

DoConfirmRead ==
  /\ Pushes < MaxPushes
  /\ \E s \in ConfirmSlots, bid \in 1..Len(bookings),
        gateway \in GatewayStatuses :
       ConfirmRead(s, bookings[bid].guest, bid, gateway)
  /\ UNCHANGED aux

DoConfirmSave == UNCHANGED aux /\ \E s \in ConfirmSlots : ConfirmSave(s)

DoConfirmPush == UNCHANGED aux /\ \E s \in ConfirmSlots : ConfirmPush(s)

DoConfirmRespond ==
  UNCHANGED aux /\ \E s \in ConfirmSlots, smsOk \in BOOLEAN : ConfirmRespond(s, smsOk)

DoCrash == UNCHANGED aux /\ \E s \in ConfirmSlots : Crash(s)

DoHostUpdate ==
  /\ UNCHANGED aux
  /\ \E bid \in 1..Len(bookings), status \in HostStatuses :
       HostUpdateBooking(properties[bookings[bid].property].host, bid, status)

Next ==
  \/ DoCreate
  \/ DoConfirmRead
  \/ DoConfirmSave
  \/ DoConfirmPush
  \/ DoConfirmRespond
  \/ DoCrash
  \/ DoHostUpdate

Spec == Init /\ [][Next]_vars

-----------------------------------------------------------------------------
(* Reviews: bookings are created, moved by the hosts, and reviewed by      *)
(* concurrent review-create requests.                                      *)

ReviewsInFlight == Cardinality({s \in Slots : req[s].kind = "review"})

DoReviewFindBooking ==
  /\ Len(reviews) + ReviewsInFlight < MaxReviews
  /\ \E s \in Slots, g \in Guests, bid \in 1..Len(bookings), pid \in PropertyIds :
       ReviewFindBooking(s, g, bid, pid)
  /\ UNCHANGED aux

DoReviewFindExisting == UNCHANGED aux /\ \E s \in Slots : ReviewFindExisting(s)

DoReviewSave == UNCHANGED aux /\ \E s \in Slots : ReviewSave(s)

DoCreateFirst ==
  /\ bookings = <<>>
  /\ \E r \in WorkflowRequests :
       CreateBooking(r.guest, r.property, r.checkIn, r.checkOut, TRUE)
  /\ UNCHANGED aux

ReviewNext ==
  \/ DoCreateFirst
  \/ DoHostUpdate
  \/ DoReviewFindBooking
  \/ DoReviewFindExisting
  \/ DoReviewSave

ReviewSpec == Init /\ [][ReviewNext]_vars

-----------------------------------------------------------------------------
(* Pricing claims, stated over the response of create-booking and the      *)
(* booking it stored.                                                      *)

\* the night count as the least n of whole days covering the stay
StayNights(checkIn, checkOut) ==
  CHOOSE n \in -(MaxTick + 1)..(MaxTick + 1) :
    /\ n * TicksPerDay >= checkOut - checkIn
    /\ (n - 1) * TicksPerDay < checkOut - checkIn

\* hundredths taken off by discount d on a raw total of raw units
Candidate(d, raw) ==
  IF d.discountType = "fixed" THEN 100 * d.value ELSE raw * d.value

Eligible(ds, checkIn, checkOut) ==
  {k \in 1..Len(ds) :
     /\ ds[k].validFrom <= checkIn /\ checkOut <= ds[k].validUntil
     /\ (ds[k].minNights # 0 => StayNights(checkIn, checkOut) >= ds[k].minNights)}

Created == last.op = "create" /\ last.code = 200

\* C1: when at least one discount is eligible, the stored discountAmount is
\* the maximum candidate amount over the eligible discounts, the discount
\* chosen is the first in list order attaining it, and the stored
\* totalAmount is rawTotal - discountAmount.
C1_BestDiscount ==
  Created =>
    LET b == bookings[last.bid]
        ds == properties[b.property].discounts
        raw == StayNights(b.checkIn, b.checkOut) * properties[b.property].pricePerNight
        E == Eligible(ds, b.checkIn, b.checkOut)
    IN E # {} =>
         /\ last.applied \in E
         /\ b.discountAmount = Candidate(ds[last.applied], raw)
         /\ \A k \in E : Candidate(ds[k], raw) <= b.discountAmount
         /\ \A k \in E : k < last.applied => Candidate(ds[k], raw) < b.discountAmount
         /\ b.totalAmount = 100 * raw - b.discountAmount

\* two eligible discounts tie at the maximum and the earlier one was chosen
C1_Witness ==
  /\ Created
  /\ LET b == bookings[last.bid]
         ds == properties[b.property].discounts
         raw == StayNights(b.checkIn, b.checkOut) * properties[b.property].pricePerNight
         E == Eligible(ds, b.checkIn, b.checkOut)
     IN /\ {1, 2} \subseteq E
        /\ ds[1].discountType # ds[2].discountType
        /\ Candidate(ds[1], raw) = Candidate(ds[2], raw)
        /\ last.applied = 1
        /\ b.discountAmount > 0

\* C2: a discount is applied only if its validity window contains the whole
\* stay and the stay meets its minNights when set; with no eligible
\* discount the stored discountAmount is 0 and totalAmount is
\* nights * pricePerNight.
C2_OnlyEligibleApplied ==
  Created =>
    LET b == bookings[last.bid]
        ds == properties[b.property].discounts
        n == StayNights(b.checkIn, b.checkOut)
        E == Eligible(ds, b.checkIn, b.checkOut)
    IN /\ last.applied # 0 => last.applied \in E
       /\ E = {} => /\ last.applied = 0
                    /\ b.discountAmount = 0
                    /\ b.totalAmount = 100 * n * properties[b.property].pricePerNight

\* a stay for which the property has discounts, none of them eligible
C2_Witness ==
  /\ Created
  /\ LET b == bookings[last.bid]
         ds == properties[b.property].discounts
     IN /\ Len(ds) = 2
        /\ ds[1].validUntil < b.checkOut
        /\ ds[2].minNights > StayNights(b.checkIn, b.checkOut)
        /\ ds[2].validFrom <= b.checkIn /\ b.checkOut <= ds[2].validUntil
        /\ b.checkOut > b.checkIn
        /\ b.discountAmount = 0 /\ b.totalAmount > 0

\* C3: create-booking with checkOut <= checkIn fails with an invalid-date-range
\* error, persists no booking and creates no payment intent, so every stored
\* booking has checkOut > checkIn.
C3_InvalidDateRangeRejected ==
  /\ (last.op = "create" /\ last.pid \in PropertyIds /\ last.checkOut <= last.checkIn)
       => (last.code = 400 /\ last.bid = 0 /\ last.intent = 0)
  /\ \A i \in 1..Len(bookings) : bookings[i].checkOut > bookings[i].checkIn

\* C4: every booking persisted by create-booking has totalAmount >= 0 and
\* discountAmount >= 0.
C4_AmountsNonNegative ==
  \A i \in 1..Len(bookings) :
    bookings[i].totalAmount >= 0 /\ bookings[i].discountAmount >= 0

-----------------------------------------------------------------------------
(* Workflow claims *)

HasWindow(b) ==
  \E k \in 1..Len(properties[b.property].availability) :
    properties[b.property].availability[k] =
      [startDate |-> b.checkIn, endDate |-> b.checkOut, isAvailable |-> FALSE]

\* a confirm call that saw the gateway report succeeded has responded
ConfirmCompleted == last.op = "confirm" /\ last.sms # "none"

LifecycleMoves ==
  {<<"pending", "confirmed">>, <<"confirmed", "completed">>,
   <<"pending", "cancelled">>, <<"confirmed", "cancelled">>}

\* C6: a booking's status only moves pending -> confirmed -> completed, or
\* into cancelled; cancelled and completed are never left and confirmed is
\* never skipped.
C6_StatusLifecycle ==
  [][\A i \in 1..Len(bookings) :
       \/ bookings'[i].status = bookings[i].status
       \/ <<bookings[i].status, bookings'[i].status>> \in LifecycleMoves]_vars

\* C9: confirm appends one unavailable entry for the booking's own dates and
\* never changes the entries already there, whatever they overlap; nothing
\* else touches the list, so overlapping bookings can both be confirmed.
C9_WindowsAppendOnly ==
  [][\A p \in PropertyIds :
       LET a == properties[p].availability
           a2 == properties'[p].availability
       IN \/ a2 = a
          \/ /\ Len(a2) = Len(a) + 1
             /\ SubSeq(a2, 1, Len(a)) = a
             /\ \E i \in 1..Len(bookings) :
                  /\ bookings[i].property = p
                  /\ a2[Len(a2)] = [startDate |-> bookings[i].checkIn,
                                    endDate |-> bookings[i].checkOut,
                                    isAvailable |-> FALSE]]_vars

\* two overlapping bookings of one property are both confirmed, each with
\* its own unavailable window stored
C9_Witness ==
  \E i, j \in 1..Len(bookings) :
    /\ i # j
    /\ bookings[i].property = bookings[j].property
    /\ bookings[i].checkIn < bookings[j].checkOut
    /\ bookings[j].checkIn < bookings[i].checkOut
    /\ bookings[i].status = "confirmed" /\ bookings[j].status = "confirmed"
    /\ bookings[i].paymentStatus = "paid" /\ bookings[j].paymentStatus = "paid"
    /\ LET a == properties[bookings[i].property].availability
       IN /\ Len(a) = 2
          /\ a[1].startDate < a[2].endDate /\ a[2].startDate < a[1].endDate
          /\ a[1] # a[2]
          /\ HasWindow(bookings[i]) /\ HasWindow(bookings[j])

-----------------------------------------------------------------------------
(* Review claims *)

\* C7: review-create gets past its checks only for an existing booking of
\* the calling guest and the given property with status completed that no
\* review references; a request issued once a review of the booking is
\* stored never reaches the save; stored reviews match their booking.
C7_ReviewNeedsCompletedUnreviewed ==
  /\ last.op = "review.booking" =>
       /\ Exists(last.bid)
       /\ bookings[last.bid].guest = last.caller
       /\ bookings[last.bid].property = last.pid
       /\ bookings[last.bid].status = "completed"
  /\ last.op = "review.existing" =>
       \A i \in 1..Len(reviews) : reviews[i].booking # last.bid
  /\ \A s \in Slots :
       (req[s].kind = "review" /\ req[s].after) => req[s].pc # "save"
  /\ \A i \in 1..Len(reviews) :
       /\ Exists(reviews[i].booking)
       /\ bookings[reviews[i].booking].guest = reviews[i].guest
       /\ bookings[reviews[i].booking].property = reviews[i].property

\* a second review-create for a reviewed booking was refused, the first
\* review remaining the only one
C7_Witness ==
  /\ last.op = "review" /\ last.code = 400
  /\ Len(reviews) = 1
  /\ reviews[1].booking = last.bid
  /\ bookings[last.bid].status = "completed"

\* C8: at most one review references any given booking.
C8_OneReviewPerBooking ==
  \A i, j \in 1..Len(reviews) :
    reviews[i].booking = reviews[j].booking => i = j

-----------------------------------------------------------------------------
(* GET /hosts  (admin): the host list and the ranking tags                 *)

MaxHostCount == 100
MaxHosts == 4
MaxEarnings == 1
ListPages == {1, 2}
ListLimits == {1, 2, 10}

HostTagStrict(index, n) ==
  IF (index + 1) * 100 < n THEN "gold"
  ELSE IF (index + 1) * 10 < n THEN "silver"
  ELSE IF (index + 1) * 10 < 3 * n THEN "bronze"
  ELSE "none"

\* percentile = (index + 1) / n against 0.01, 0.1 and 0.3, in integers;
\* "none" is the null tag
HostTag(index, n) ==
  IF (index + 1) * 100 <= n THEN "gold"
  ELSE IF (index + 1) * 10 <= n THEN "silver"
  ELSE IF (index + 1) * 10 <= 3 * n THEN "bronze"
  ELSE "none"

\* the place of host i after the comparator b.earnings - a.earnings has
\* sorted the collection: behind every host earning more, and behind the
\* hosts earning the same that are stored before it (the sort is stable)
SortedPlace(hs, i) ==
  Cardinality({j \in 1..Len(hs) : hs[j].earnings > hs[i].earnings})
    + Cardinality({j \in 1..i : hs[j].earnings = hs[i].earnings})

\* the host that the sort leaves at place k
HostAtPlace(hs, k) == CHOOSE i \in 1..Len(hs) : SortedPlace(hs, i) = k

\* skip((page - 1) * limit).limit(limit) over the sorted collection
PageOf(hs, page, limit) ==
  LET first == (page - 1) * limit + 1
      final == Min(page * limit, Len(hs))
  IN IF first > final THEN <<>>
     ELSE [k \in 1..(final - first + 1) |-> HostAtPlace(hs, first + k - 1)]

ListingRecomputed(pageIds, page, limit) ==
  [hosts |-> [k \in 1..Len(pageIds) |->
                [id |-> pageIds[k],
                 hostTag |-> HostTag(SortedPlace(hosts, pageIds[k]) - 1, Len(hosts))]],
   total |-> Len(hosts), totalPages |-> CeilDiv(Len(hosts), limit),
   currentPage |-> page]

\* the response: the page read before the tags are recomputed
Listing(pageIds, page, limit) ==
  [hosts |-> [k \in 1..Len(pageIds) |->
                [id |-> pageIds[k], hostTag |-> hosts[pageIds[k]].hostTag]],
   total |-> Len(hosts), totalPages |-> CeilDiv(Len(hosts), limit),
   currentPage |-> page]

HostListTagsPage(page, limit) ==
  LET first == (page - 1) * limit + 1
      final == Min(page * limit, Len(hosts))
  IN /\ listed' = Listing(PageOf(hosts, page, limit), page, limit)
     /\ hosts' = [i \in 1..Len(hosts) |->
                    IF SortedPlace(hosts, i) \in first..final
                    THEN [hosts[i] EXCEPT
                            !.hostTag = HostTag(SortedPlace(hosts, i) - first,
                                                final - first + 1)]
                    ELSE hosts[i]]
     /\ last' = Resp("hostList", 200, NoSuchId, 0, NoSuchId)
     /\ UNCHANGED <<properties, bookings, reviews, intents, req, users, gate, found, issued>>

HostList(page, limit) ==
  /\ listed' = Listing(PageOf(hosts, page, limit), page, limit)
  /\ hosts' = [i \in 1..Len(hosts) |->
                 [hosts[i] EXCEPT
                    !.hostTag = HostTag(SortedPlace(hosts, i) - 1, Len(hosts))]]
  /\ last' = Resp("hostList", 200, NoSuchId, 0, NoSuchId)
  /\ UNCHANGED <<properties, bookings, reviews, intents, req, users, gate, found, issued>>

SeedProperties ==
  [p \in PropertyIds |->
     IF p = "p1" THEN Property("h1", 100, <<SeedDiscount>>)
     ELSE Property("h2", 40, <<>>)]

HostUserId(i) == ToString(i)

HostCounts == {10, 30, MaxHostCount}

\* host collections: large ones stored in ascending order of distinct
\* earnings, and up to MaxHosts hosts with any earnings, ties included; no
\* tag has been computed yet
HostCollections ==
  {[i \in 1..n |-> HostProfile(HostUserId(i), i)] : n \in HostCounts}
    \cup UNION {{[i \in 1..n |-> HostProfile(HostUserId(i), e[i])] :
                   e \in [1..n -> 0..MaxEarnings]} : n \in 0..MaxHosts}

HostInit ==
  /\ InitStore
  /\ properties = SeedProperties
  /\ hosts \in HostCollections
  /\ users = [u \in {hosts[i].user : i \in 1..Len(hosts)} \cup Admins |->
                IF u \in Admins THEN "admin" ELSE "host"]
  /\ listed = NoListing
  /\ gate = NoGate
  /\ found = NoSearch
  /\ issued = {}

HostNext == \E page \in ListPages, limit \in ListLimits : HostList(page, limit)

HostSpec == HostInit /\ [][HostNext]_vars

\* hosts earning strictly more than host i, and hosts earning at least as much
Above(i) == Cardinality({j \in 1..Len(hosts) : hosts[j].earnings > hosts[i].earnings})

AtLeast(i) == Cardinality({j \in 1..Len(hosts) : hosts[j].earnings >= hosts[i].earnings})

\* the documented tag of 1-based rank k among n hosts
PolicyTag(k, n) ==
  IF 100 * k <= n THEN "gold"
  ELSE IF 100 * k <= 10 * n THEN "silver"
  ELSE IF 100 * k <= 30 * n THEN "bronze"
  ELSE "none"

TagAtRank(k) ==
  LET i == CHOOSE i \in 1..Len(hosts) : Above(i) = k - 1 IN hosts[i].hostTag

Listed == last.op = "hostList"

\* C11: after a host list, the tag of a host whose rank in descending
\* earnings is k (1-based, index k - 1) among N hosts is the one the
\* percentile p = k / N selects: gold for p <= 0.01, silver for p <= 0.10,
\* bronze for p <= 0.30, none above; among 100 hosts rank 1 is gold, rank 5
\* silver, rank 25 bronze and rank 50 untagged.
C11_TagByPercentile ==
  Listed =>
    /\ \A i \in 1..Len(hosts) :
         AtLeast(i) = Above(i) + 1 =>
           hosts[i].hostTag = PolicyTag(Above(i) + 1, Len(hosts))
    /\ (Len(hosts) = 100 /\ \A i \in 1..100 : AtLeast(i) = Above(i) + 1) =>
         /\ TagAtRank(1) = "gold"
         /\ TagAtRank(5) = "silver"
         /\ TagAtRank(25) = "bronze"
         /\ TagAtRank(50) = "none"

C11_Witness ==
  /\ Listed
  /\ Len(hosts) = 100
  /\ TagAtRank(1) = "gold"
  /\ TagAtRank(10) = "silver"
  /\ TagAtRank(30) = "bronze"
  /\ TagAtRank(31) = "none"

TagCount(t) == Cardinality({i \in 1..Len(hosts) : hosts[i].hostTag = t})

PolicyCount(t) == Cardinality({k \in 1..Len(hosts) : PolicyTag(k, Len(hosts)) = t})

\* C12: when a host list has completed, whatever its page and limit, every
\* stored host, listed on the page or not, carries the policy tag of a rank
\* it can hold in the descending order of earnings (any place within its
\* tie group), and each tag is carried by as many hosts as the policy
\* gives it.
C12_AllHostsRetagged ==
  Listed =>
    /\ \A i \in 1..Len(hosts) :
         \E k \in (Above(i) + 1)..AtLeast(i) :
           hosts[i].hostTag = PolicyTag(k, Len(hosts))
    /\ \A t \in {"gold", "silver", "bronze", "none"} : TagCount(t) = PolicyCount(t)

\* a one-host page of a collection whose top host earns the bronze tag
C12_Witness ==
  /\ Listed
  /\ Len(listed.hosts) = 1
  /\ Len(hosts) = MaxHosts
  /\ \E i \in 1..Len(hosts) :
       /\ hosts[i].hostTag = "bronze"
       /\ \A k \in 1..Len(listed.hosts) : listed.hosts[k].id # i

\* C20: the hosts a host list returns carry the tags stored before the
\* request, not the ones the request writes.
C20_ResponseHasStoredTags ==
  [][\A k \in 1..Len(listed'.hosts) :
       listed'.hosts[k].hostTag = hosts[listed'.hosts[k].id].hostTag]_vars

\* a response whose tag for a host differs from the tag the same request
\* stored for it
C20_Witness ==
  /\ Listed
  /\ \E k \in 1..Len(listed.hosts) :
       listed.hosts[k].hostTag # hosts[listed.hosts[k].id].hostTag

-----------------------------------------------------------------------------
(* Route guards (middleware) and the host routes behind them               *)

\* requests without a token, with a token signed with the user secret for a
\* guest, either host, the admin or a user that no longer exists ("gone"),
\* with a token signed with the admin secret, and with a forged token
Tokens ==
  {NoToken}
    \cup {[id |-> u, secret |-> "user"] : u \in {"g1", "h1", "h2", "a1", "gone"}}
    \cup {[id |-> u, secret |-> "admin"] : u \in {"a1", "h1", "gone"}}
    \cup {[id |-> "h1", secret |-> "forged"]}

\* jwt.verify(token, secret)
Verifies(token, secret) == token # NoToken /\ token.secret = secret

AuthenticateHostAnyRole(token) ==
  /\ Verifies(token, "user")
  /\ token.id \in DOMAIN users

Authenticate(token) ==
  /\ Verifies(token, "user")
  /\ token.id \in DOMAIN users

AuthenticateAdmin(token) ==
  /\ Verifies(token, "admin")
  /\ token.id \in DOMAIN users
  /\ users[token.id] = "admin"

AuthenticateHost(token) ==
  /\ Verifies(token, "user")
  /\ token.id \in DOMAIN users
  /\ users[token.id] \in {"host", "admin"}

Gate(guard, token, ok, valid) == [guard |-> guard, token |-> token, ok |-> ok, valid |-> valid]

\* the guard answers 401 and the handler is not called
Deny(guard, token, op) ==
  /\ gate' = Gate(guard, token, FALSE, TRUE)
  /\ last' = Resp(op, 401, NoSuchId, 0, NoSuchId)
  /\ UNCHANGED <<properties, bookings, reviews, intents, req, users, hosts, listed, found, issued>>

\* Host.findOne({ user: req.user.id })
HasHostProfile(u) == \E i \in 1..Len(hosts) : hosts[i].user = u

\* Property.findOne({ _id, host: host._id })
OwnsProperty(h, pid) == pid \in PropertyIds /\ properties[pid].host = h

\* Review.findOne({ _id, property: { $in: own properties } })
OwnsReview(h, rid) ==
  rid \in 1..Len(reviews) /\ reviews[rid].property \in HostProperties(h)

\* PATCH /bookings/:id with its validator and the host lookup
HostPatchBooking(h, bid, status) ==
  IF status \notin HostStatuses
  THEN /\ last' = Resp("hostUpdate", 400, h, bid, NoSuchId)
       /\ UNCHANGED <<properties, bookings, reviews, intents, req>>
  ELSE IF ~HasHostProfile(h)
  THEN /\ last' = Resp("hostUpdate", 500, h, bid, NoSuchId)
       /\ UNCHANGED <<properties, bookings, reviews, intents, req>>
  ELSE HostUpdateBooking(h, bid, status)

\* PUT /properties/:id, the body setting the nightly rate
HostUpdateProperty(h, pid, price) ==
  /\ IF ~HasHostProfile(h)
     THEN /\ last' = Resp("hostProperty", 500, h, 0, pid)
          /\ UNCHANGED properties
     ELSE IF ~OwnsProperty(h, pid)
     THEN /\ last' = Resp("hostProperty", 404, h, 0, pid)
          /\ UNCHANGED properties
     ELSE /\ properties' = [properties EXCEPT ![pid].pricePerNight = price]
          /\ last' = Resp("hostProperty", 200, h, 0, pid)
  /\ UNCHANGED <<bookings, reviews, intents, req>>

Replies == {"", "thanks"}

\* POST /reviews/:id/reply
HostReplyReview(h, rid, reply) ==
  /\ IF reply = ""
     THEN /\ last' = Resp("hostReply", 400, h, rid, NoSuchId)
          /\ UNCHANGED reviews
     ELSE IF ~HasHostProfile(h)
     THEN /\ last' = Resp("hostReply", 500, h, rid, NoSuchId)
          /\ UNCHANGED reviews
     ELSE IF ~OwnsReview(h, rid)
     THEN /\ last' = Resp("hostReply", 404, h, rid, NoSuchId)
          /\ UNCHANGED reviews
     ELSE /\ reviews' = [reviews EXCEPT ![rid].hostReply = reply]
          /\ last' = Resp("hostReply", 200, h, rid, reviews[rid].property)
  /\ UNCHANGED <<properties, bookings, intents, req>>

-----------------------------------------------------------------------------
(* Guarded routes: requests carrying any token reach the guest, host and   *)
(* admin routes over a store holding one completed, reviewed booking.      *)

SeedBooking ==
  [NewBooking("g1", "p1", 0, 2, 9000, 1000, 1)
     EXCEPT !.status = "completed", !.paymentStatus = "paid", !.transactionId = 1]

AccessInit ==
  /\ InitAccounts
  /\ properties = [SeedProperties EXCEPT !["p1"].availability = PushWindow(@, SeedBooking)]
  /\ bookings = <<SeedBooking>>
  /\ intents = <<9000>>
  /\ reviews = <<[guest |-> "g1", property |-> "p1", booking |-> 1, hostReply |-> "none"]>>
  /\ req = [s \in Slots |-> NoReq]
  /\ last = NoResp

\* POST /bookings/:id/confirm behind authenticate
GuestConfirm(token, s, bid, gateway) ==
  IF Authenticate(token)
  THEN /\ ConfirmRead(s, token.id, bid, gateway)
       /\ gate' = Gate("authenticate", token, TRUE, TRUE)
       /\ UNCHANGED <<users, hosts, listed, found, issued>>
  ELSE Deny("authenticate", token, "confirm")

\* PATCH /bookings/:id behind authenticateHost
HostBooking(token, bid, status) ==
  IF AuthenticateHost(token)
  THEN /\ HostPatchBooking(token.id, bid, status)
       /\ gate' = Gate("authenticateHost", token, TRUE, status \in HostStatuses)
       /\ UNCHANGED <<users, hosts, listed, found, issued>>
  ELSE Deny("authenticateHost", token, "hostUpdate")

\* PUT /properties/:id behind authenticateHost
HostProperty(token, pid, price) ==
  IF AuthenticateHost(token)
  THEN /\ HostUpdateProperty(token.id, pid, price)
       /\ gate' = Gate("authenticateHost", token, TRUE, TRUE)
       /\ UNCHANGED <<users, hosts, listed, found, issued>>
  ELSE Deny("authenticateHost", token, "hostProperty")

\* POST /reviews/:id/reply behind authenticateHost
HostReply(token, rid, reply) ==
  IF AuthenticateHost(token)
  THEN /\ HostReplyReview(token.id, rid, reply)
       /\ gate' = Gate("authenticateHost", token, TRUE, reply # "")
       /\ UNCHANGED <<users, hosts, listed, found, issued>>
  ELSE Deny("authenticateHost", token, "hostReply")

\* GET /hosts behind authenticateAdmin
AdminHosts(token, page, limit) ==
  IF AuthenticateAdmin(token)
  THEN /\ hosts' = [i \in 1..Len(hosts) |->
                      [hosts[i] EXCEPT
                         !.hostTag = HostTag(SortedPlace(hosts, i) - 1, Len(hosts))]]
       /\ listed' = Listing(PageOf(hosts, page, limit), page, limit)
       /\ last' = Resp("hostList", 200, token.id, 0, NoSuchId)
       /\ gate' = Gate("authenticateAdmin", token, TRUE, TRUE)
       /\ UNCHANGED <<properties, bookings, reviews, intents, req, users, found, issued>>
  ELSE Deny("authenticateAdmin", token, "hostList")

DoGuestConfirm ==
  /\ Pushes < MaxPushes
  /\ \E token \in Tokens, s \in ConfirmSlots, bid \in 1..Len(bookings),
        gateway \in GatewayStatuses :
       GuestConfirm(token, s, bid, gateway)

\* the later steps of a confirm handler: no request is at a guard
DoConfirmStep ==
  /\ \E s \in ConfirmSlots :
       ConfirmSave(s) \/ ConfirmPush(s) \/ ConfirmRespond(s, TRUE)
  /\ gate' = NoGate
  /\ UNCHANGED <<users, hosts, listed, found, issued>>

DoHostBooking ==
  \E token \in Tokens, bid \in 1..Len(bookings), status \in HostStatuses \cup {"pending"} :
    HostBooking(token, bid, status)

DoHostProperty ==
  \E token \in Tokens, pid \in PropertyIds : HostProperty(token, pid, 40)

DoHostReply ==
  \E token \in Tokens, rid \in 1..Len(reviews), reply \in Replies : HostReply(token, rid, reply)

DoAdminHosts == \E token \in Tokens : AdminHosts(token, 1, 10)

AccessNext ==
  \/ DoGuestConfirm
  \/ DoConfirmStep
  \/ DoHostBooking
  \/ DoHostProperty
  \/ DoHostReply
  \/ DoAdminHosts

AccessSpec == AccessInit /\ [][AccessNext]_vars

-----------------------------------------------------------------------------
(* Guard and ownership claims *)

GuardSecret(guard) == IF guard = "authenticateAdmin" THEN "admin" ELSE "user"

GuardRoles(guard) ==
  IF guard = "authenticateAdmin" THEN {"admin"}
  ELSE IF guard = "authenticateHost" THEN {"host", "admin"}
  ELSE {"guest", "host", "admin"}

Admitted(guard, token) ==
  /\ token.secret = GuardSecret(guard)
  /\ token.id \in DOMAIN users
  /\ users[token.id] \in GuardRoles(guard)

\* C13: a request reaches its route handler exactly when its token verifies
\* under the secret of the route's guard (admin secret for admin routes,
\* user secret for host and guest routes) for an existing user whose role
\* the guard allows (admin; host or admin; any); every other request, with
\* no token, a token of the wrong secret, an unknown user or a wrong role,
\* is answered 401 and writes nothing.
C13_GuardedRoutes ==
  [][gate'.guard # "none" =>
       /\ gate'.ok <=> Admitted(gate'.guard, gate'.token)
       /\ gate'.ok => last'.code # 401
       /\ ~gate'.ok =>
            /\ last'.code = 401
            /\ UNCHANGED <<properties, bookings, reviews, intents, req, users, hosts>>]_vars

\* a guest's valid user token refused by the host guard
C13_Witness ==
  /\ gate.guard = "authenticateHost"
  /\ gate.token = [id |-> "g1", secret |-> "user"]
  /\ ~gate.ok
  /\ last.code = 401

HostCaller(u) == u \in DOMAIN users /\ users[u] = "host"

OwnerOf(pid) == properties[pid].host

\* the request answered in the step targets an entity outside the caller's
\* own properties, or a booking of another guest
ForeignTarget ==
  \/ /\ last'.op = "hostUpdate" /\ HostCaller(last'.caller)
     /\ ~(last'.bid \in 1..Len(bookings)
          /\ OwnerOf(bookings[last'.bid].property) = last'.caller)
  \/ /\ last'.op = "hostProperty" /\ HostCaller(last'.caller)
     /\ ~(last'.pid \in PropertyIds /\ OwnerOf(last'.pid) = last'.caller)
  \/ /\ last'.op = "hostReply" /\ HostCaller(last'.caller)
     /\ ~(last'.bid \in 1..Len(reviews)
          /\ OwnerOf(reviews[last'.bid].property) = last'.caller)
  \/ /\ last'.op = "confirm" /\ gate'.ok
     /\ ~(last'.bid \in 1..Len(bookings) /\ bookings[last'.bid].guest = last'.caller)

Untouched == UNCHANGED <<properties, bookings, reviews, intents, req>>

\* a confirm handler is past its lookup only for the booking's own guest
ConfirmsByGuestOnly ==
  \A s \in Slots :
    req'[s].kind = "confirm" => bookings[req'[s].bid].guest = req'[s].caller

\* C15 as stated: a host's booking-status update, property update or review
\* reply on an entity outside the caller's own properties, and a confirm on
\* another guest's booking, is answered 404 and changes nothing.
C15_ForeignTargetIs404 ==
  [][/\ ForeignTarget => (last'.code = 404 /\ Untouched)
     /\ ConfirmsByGuestOnly]_vars

\* C15 amended: such a request changes nothing, and is answered 404 when its
\* payload passes the route's validators and 400 when it does not.
C15_ForeignTargetRefused ==
  [][/\ ForeignTarget =>
          /\ last'.code = (IF gate'.valid THEN 404 ELSE 400)
          /\ Untouched
     /\ ConfirmsByGuestOnly]_vars

\* host h2 was answered 404 on the booking of h1's property, a host on a
\* review of the other host's property, and so on for each route
C15_Witness ==
  /\ last.op = "hostUpdate"
  /\ last.code = 404
  /\ last.caller = "h2"
  /\ last.bid = 1
  /\ OwnerOf(bookings[1].property) = "h1"

-----------------------------------------------------------------------------
(* POST /become-host: the lookup, the Host save and the role update are    *)
(* three await points of the handler; requests interleave at them.         *)

MaxHostRecords == 4

\* Host.findOne({ user }) and the "already a host" answer
BecomeHostFind(s, u) ==
  /\ req[s].pc = "idle"
  /\ IF HasHostProfile(u)
     THEN /\ last' = Resp("becomeHost", 400, u, 0, NoSuchId)
          /\ UNCHANGED req
     ELSE /\ req' = [req EXCEPT ![s] =
                [NoReq EXCEPT !.kind = "becomeHost", !.pc = "save", !.caller = u]]
          /\ last' = Await
  /\ UNCHANGED <<properties, bookings, reviews, intents, users, hosts, listed, gate, found, issued>>

\* host.save()
BecomeHostSave(s) ==
  /\ req[s].kind = "becomeHost" /\ req[s].pc = "save"
  /\ hosts' = Append(hosts, HostProfile(req[s].caller, 0))
  /\ req' = [req EXCEPT ![s].pc = "role"]
  /\ last' = Await
  /\ UNCHANGED <<properties, bookings, reviews, intents, users, listed, gate, found, issued>>

\* User.findByIdAndUpdate(id, { role: "host" }) and the 201 response
BecomeHostRole(s) ==
  /\ req[s].kind = "becomeHost" /\ req[s].pc = "role"
  /\ users' = [users EXCEPT ![req[s].caller] = "host"]
  /\ req' = [req EXCEPT ![s] = NoReq]
  /\ last' = Resp("becomeHost", 201, req[s].caller, 0, NoSuchId)
  /\ UNCHANGED <<properties, bookings, reviews, intents, hosts, listed, gate, found, issued>>

BecomeInit ==
  /\ InitStore
  /\ InitAccounts
  /\ properties = SeedProperties

\* host records stored or about to be saved
HostRecords ==
  Len(hosts) + Cardinality({s \in Slots : req[s].kind = "becomeHost" /\ req[s].pc = "save"})

DoBecomeHostFind ==
  /\ HostRecords < MaxHostRecords
  /\ \E s \in Slots, u \in DOMAIN users : BecomeHostFind(s, u)

DoBecomeHostSave == \E s \in Slots : BecomeHostSave(s)

DoBecomeHostRole == \E s \in Slots : BecomeHostRole(s)

DoBecomeCrash == UNCHANGED aux /\ \E s \in Slots : Crash(s)

BecomeNext ==
  \/ DoBecomeHostFind
  \/ DoBecomeHostSave
  \/ DoBecomeHostRole
  \/ DoBecomeCrash

BecomeSpec == BecomeInit /\ [][BecomeNext]_vars

\* C14: in every reachable state, concurrent become-host requests of one
\* user and the gap between the handler's two writes included, no user has
\* two Host records and the user of every Host record has role host.
C14_OneHostPerHostUser ==
  /\ \A i, j \in 1..Len(hosts) : hosts[i].user = hosts[j].user => i = j
  /\ \A i \in 1..Len(hosts) : users[hosts[i].user] = "host"

-----------------------------------------------------------------------------
(* GET /properties: the search filter                                      *)
(* A query parameter is a sequence: empty when the parameter is omitted or *)
(* the empty string.  Numeric parameters are decimal strings, kept in      *)
(* hundredths (50.5 is 5050); a city and a location are sequences of       *)
(* letters.                                                                *)

\* parseInt of a decimal string: the digits before the point
ParseInt(h) == IF h >= 0 THEN h \div 100 ELSE -((-h) \div 100)

Lower(c) == IF c = "P" THEN "p" ELSE IF c = "L" THEN "l" ELSE IF c = "Y" THEN "y" ELSE c

\* new RegExp(location, "i") on a location of letters: a case-insensitive
\* substring test
CityMatches(city, location) ==
  \E i \in 0..(Len(city) - Len(location)) :
    \A k \in 1..Len(location) : Lower(city[i + k]) = Lower(location[k])

\* the $elemMatch on availability
HasAvailableWindow(property, checkIn, checkOut) ==
  \E k \in 1..Len(property.availability) :
    /\ property.availability[k].startDate <= checkIn
    /\ property.availability[k].endDate >= checkOut
    /\ property.availability[k].isAvailable

\* the filter object built from the query, applied to one property
MatchesFilter(property, q) ==
  /\ property.isActive
  /\ q.location # <<>> => CityMatches(property.city, q.location)
  /\ q.minPrice # <<>> => property.pricePerNight >= ParseInt(q.minPrice[1])
  /\ q.maxPrice # <<>> => property.pricePerNight <= ParseInt(q.maxPrice[1])
  /\ q.propertyType # "" => property.type = q.propertyType
  /\ q.amenities # <<>> =>
       \A k \in 1..Len(q.amenities) : q.amenities[k] \in property.amenities
  /\ (q.checkIn # <<>> /\ q.checkOut # <<>>) =>
       HasAvailableWindow(property, q.checkIn[1], q.checkOut[1])
  /\ q.guests # <<>> => property.maxGuests >= ParseInt(q.guests[1])

PropertyOrder == <<"p1", "p2">>

RECURSIVE Matching(_, _)

\* Property.find(filter) in stored order
Matching(order, q) ==
  IF order = <<>> THEN <<>>
  ELSE IF MatchesFilter(properties[Head(order)], q)
       THEN <<Head(order)>> \o Matching(Tail(order), q)
       ELSE Matching(Tail(order), q)

SearchProperties(q, page, limit) ==
  LET all == Matching(PropertyOrder, q)
      first == (page - 1) * limit + 1
      final == Min(page * limit, Len(all))
  IN /\ found' = [query |-> q,
                  properties |-> IF first > final THEN <<>> ELSE SubSeq(all, first, final),
                  total |-> Len(all), totalPages |-> CeilDiv(Len(all), limit),
                  currentPage |-> page]
     /\ last' = Resp("search", 200, NoSuchId, 0, NoSuchId)
     /\ UNCHANGED <<properties, bookings, reviews, intents, req, users, hosts, listed, gate,
                     issued>>

Queries ==
  [location : {<<>>, <<"p", "a", "r">>, <<"L", "Y">>},
   checkIn : {<<>>, <<1>>},
   checkOut : {<<>>, <<MaxTick - 1>>},
   guests : {<<>>, <<300>>},
   minPrice : {<<>>, <<5000>>, <<5050>>},
   maxPrice : {<<>>, <<15000>>},
   amenities : {<<>>, <<"wifi">>, <<"wifi", "pool">>},
   propertyType : {"", "villa"}]

SearchWindows ==
  {<<>>,
   <<[startDate |-> 0, endDate |-> MaxTick, isAvailable |-> TRUE]>>,
   <<[startDate |-> 0, endDate |-> MaxTick, isAvailable |-> FALSE]>>,
   <<[startDate |-> 2, endDate |-> MaxTick, isAvailable |-> TRUE]>>}

\* p1 takes every combination of the searched fields; p2 is the seeded one
SearchInit ==
  /\ InitStore
  /\ InitAccounts
  /\ \E price \in {50, 100, 200}, maxGuests \in {2, 4}, type \in {"apartment", "villa"},
        city \in {<<"P", "a", "r", "i", "s">>, <<"L", "y", "o", "n">>},
        amenities \in {{"wifi"}, {"wifi", "pool"}}, isActive \in BOOLEAN,
        availability \in SearchWindows :
       properties =
         [SeedProperties EXCEPT
            !["p1"] = [@ EXCEPT !.pricePerNight = price, !.maxGuests = maxGuests,
                                !.type = type, !.city = city,
                                !.amenities = amenities, !.isActive = isActive,
                                !.availability = availability]]

SearchNext ==
  /\ found = NoSearch
  /\ \E q \in Queries, pl \in {<<1, 10>>, <<2, 1>>} : SearchProperties(q, pl[1], pl[2])

SearchSpec == SearchInit /\ [][SearchNext]_vars

\* the clauses as documented, on the values the query supplies
SatisfiesQuery(property, q) ==
  /\ property.isActive
  /\ q.location # <<>> => CityMatches(property.city, q.location)
  /\ q.minPrice # <<>> => property.pricePerNight * 100 >= q.minPrice[1]
  /\ q.maxPrice # <<>> => property.pricePerNight * 100 <= q.maxPrice[1]
  /\ q.propertyType # "" => property.type = q.propertyType
  /\ q.amenities # <<>> =>
       \A k \in 1..Len(q.amenities) : q.amenities[k] \in property.amenities
  /\ (q.checkIn # <<>> /\ q.checkOut # <<>>) =>
       \E k \in 1..Len(property.availability) :
         /\ property.availability[k].isAvailable
         /\ property.availability[k].startDate <= q.checkIn[1]
         /\ q.checkOut[1] <= property.availability[k].endDate
  /\ q.guests # <<>> => property.maxGuests * 100 >= q.guests[1]

\* C16: every property a search returns is active and satisfies every
\* clause the query supplies: city match, pricePerNight within the
\* inclusive bounds minPrice and maxPrice, exact type, all listed amenities,
\* an available window containing the stay, maxGuests >= guests.
C16_SearchReturnsOnlyMatching ==
  last.op = "search" =>
    \A k \in 1..Len(found.properties) :
      SatisfiesQuery(properties[found.properties[k]], found.query)

-----------------------------------------------------------------------------
(* Confirm and host-update frame claims, over the booking workflow *)

\* the entries of a list that block exactly the dates of booking b
WindowCountIn(availability, b) ==
  Cardinality({k \in 1..Len(availability) :
                 availability[k] =
                   [startDate |-> b.checkIn, endDate |-> b.checkOut,
                    isAvailable |-> FALSE]})

\* C17: every confirm call that saw the gateway report succeeded adds one
\* more unavailable entry for the booking's dates when it reaches its
\* availability write, whatever the booking's status and however many
\* entries for the same window are already stored.
C17_EachConfirmAddsEntry ==
  [][\A s \in Slots :
       (req[s].kind = "confirm" /\ req[s].pc = "push" /\ req'[s].pc = "sms") =>
         LET b == bookings[req[s].bid]
         IN WindowCountIn(properties'[b.property].availability, b)
              = WindowCountIn(properties[b.property].availability, b) + 1]_vars

\* a second confirm of an already confirmed, paid booking has completed and
\* the window is stored twice
C17_Witness ==
  /\ ConfirmCompleted
  /\ last.code = 200
  /\ bookings[last.bid].paymentStatus = "paid"
  /\ WindowCountIn(properties[last.pid].availability, bookings[last.bid]) = 2

\* C18: a confirm call that saw the gateway report a status other than
\* succeeded is answered 400 and leaves bookings and availability as they
\* were; a confirm handler goes past the gateway lookup only for the
\* booking's own guest and a succeeded status, and a booking's paymentStatus
\* becomes paid only in the save of such a handler.
C18_PaidOnlyAfterSucceeded ==
  [][/\ (last'.op = "confirm" /\ last'.gateway \notin {"none", "error", "succeeded"}) =>
          /\ last'.code = 400
          /\ UNCHANGED <<properties, bookings, req>>
     /\ \A s \in Slots :
          req'[s].kind = "confirm" =>
            /\ req'[s].gateway = "succeeded"
            /\ bookings[req'[s].bid].guest = req'[s].caller
     /\ \A i \in 1..Len(bookings) :
          (bookings[i].paymentStatus # "paid" /\ bookings'[i].paymentStatus = "paid") =>
            \E s \in Slots :
              /\ req[s].kind = "confirm" /\ req[s].pc = "save" /\ req[s].bid = i
              /\ req'[s].pc = "push"]_vars

\* a confirm answered 400 on a booking that is still pending and unpaid
C18_Witness ==
  /\ last.op = "confirm"
  /\ last.code = 400
  /\ last.gateway = "requires_payment_method"
  /\ bookings[last.bid].paymentStatus = "pending"
  /\ ~HasWindow(bookings[last.bid])

\* C19: a host booking-status update that succeeds changes nothing but the
\* status of its booking: every other field of the booking, paymentStatus
\* included, every other booking and every availability list stay as they
\* were.
C19_HostUpdateWritesStatusOnly ==
  [][(last'.op = "hostUpdate" /\ last'.code = 200) =>
       /\ properties' = properties
       /\ Len(bookings') = Len(bookings)
       /\ \A i \in 1..Len(bookings) :
            IF i = last'.bid
            THEN bookings'[i] = [bookings[i] EXCEPT !.status = bookings'[i].status]
            ELSE bookings'[i] = bookings[i]]_vars

\* one booking cancelled by its host while paid with its window in place,
\* another set to confirmed by its host while unpaid and without a window
C19_Witness ==
  /\ last.op = "hostUpdate"
  /\ \E i, j \in 1..Len(bookings) :
       /\ bookings[i].status = "cancelled"
       /\ bookings[i].paymentStatus = "paid"
       /\ HasWindow(bookings[i])
       /\ bookings[j].status \in {"confirmed", "completed"}
       /\ bookings[j].paymentStatus = "pending"
       /\ ~HasWindow(bookings[j])

-----------------------------------------------------------------------------
(* POST /register, POST /login and the tokens they issue.  A user is keyed *)
(* by its email.                                                           *)

GenerateTokenUserSecret(id, isAdmin) == [id |-> id, secret |-> "user"]

\* jwt.sign({ id }, isAdmin ? JWT_ADMIN_SECRET : JWT_SECRET)
GenerateToken(id, isAdmin) ==
  [id |-> id, secret |-> IF isAdmin THEN "admin" ELSE "user"]

\* the validators and User.findOne({ email })
RegisterFind(s, email, valid) ==
  /\ req[s].pc = "idle"
  /\ IF ~valid \/ email \in DOMAIN users
     THEN /\ last' = Resp("register", 400, email, 0, NoSuchId)
          /\ UNCHANGED req
     ELSE /\ req' = [req EXCEPT ![s] =
                [NoReq EXCEPT !.kind = "register", !.pc = "save", !.caller = email]]
          /\ last' = Await
  /\ UNCHANGED <<properties, bookings, reviews, intents, users, hosts, listed, gate,
                 found, issued>>

\* user.save(), twice: the user is stored with the default role; when a
\* concurrent request stored the email first, the save is refused if the
\* collection enforces unique emails
RegisterSave(s, uniqueEmails) ==
  /\ req[s].kind = "register" /\ req[s].pc = "save"
  /\ IF req[s].caller \in DOMAIN users /\ uniqueEmails
     THEN /\ last' = Resp("register", 500, req[s].caller, 0, NoSuchId)
          /\ req' = [req EXCEPT ![s] = NoReq]
          /\ UNCHANGED users
     ELSE /\ users' = [u \in DOMAIN users \cup {req[s].caller} |->
                         IF u \in DOMAIN users THEN users[u] ELSE "guest"]
          /\ req' = [req EXCEPT ![s].pc = "email"]
          /\ last' = Await
  /\ UNCHANGED <<properties, bookings, reviews, intents, hosts, listed, gate, found, issued>>

RegisterSendRollsBack(s, emailOk) ==
  /\ req[s].kind = "register" /\ req[s].pc = "email"
  /\ IF emailOk
     THEN /\ issued' = issued \cup {GenerateToken(req[s].caller, FALSE)}
          /\ last' = [Resp("register", 201, req[s].caller, 0, NoSuchId)
                        EXCEPT !.token = GenerateToken(req[s].caller, FALSE)]
          /\ UNCHANGED users
     ELSE /\ last' = Resp("register", 500, req[s].caller, 0, NoSuchId)
          /\ users' = [u \in DOMAIN users \ {req[s].caller} |-> users[u]]
          /\ UNCHANGED issued
  /\ req' = [req EXCEPT ![s] = NoReq]
  /\ UNCHANGED <<properties, bookings, reviews, intents, hosts, listed, gate, found>>

\* sendVerificationEmail, then the auth token and the 201 response; a send
\* that throws is answered 500 by the handler's catch
RegisterSend(s, emailOk) ==
  /\ req[s].kind = "register" /\ req[s].pc = "email"
  /\ IF emailOk
     THEN /\ issued' = issued \cup {GenerateToken(req[s].caller, FALSE)}
          /\ last' = [Resp("register", 201, req[s].caller, 0, NoSuchId)
                        EXCEPT !.token = GenerateToken(req[s].caller, FALSE)]
     ELSE /\ last' = Resp("register", 500, req[s].caller, 0, NoSuchId)
          /\ UNCHANGED issued
  /\ req' = [req EXCEPT ![s] = NoReq]
  /\ UNCHANGED <<properties, bookings, reviews, intents, users, hosts, listed, gate, found>>

\* POST /login
Login(email, passwordOk) ==
  /\ IF email \notin DOMAIN users \/ ~passwordOk
     THEN /\ last' = Resp("login", 401, email, 0, NoSuchId)
          /\ UNCHANGED issued
     ELSE /\ issued' = issued \cup {GenerateToken(email, users[email] = "admin")}
          /\ last' = [Resp("login", 200, email, 0, NoSuchId)
                        EXCEPT !.token = GenerateToken(email, users[email] = "admin")]
  /\ UNCHANGED <<properties, bookings, reviews, intents, req, users, hosts, listed, gate, found>>

\* GET /me behind authenticate
GetMe(token) ==
  IF Authenticate(token)
  THEN /\ last' = Resp("me", 200, token.id, 0, NoSuchId)
       /\ gate' = Gate("authenticate", token, TRUE, TRUE)
       /\ UNCHANGED <<properties, bookings, reviews, intents, req, users, hosts, listed,
                      found, issued>>
  ELSE Deny("authenticate", token, "me")

\* GET /properties (host) behind authenticateHost
HostListProperties(token) ==
  IF AuthenticateHost(token)
  THEN /\ last' = Resp("hostProperties", IF HasHostProfile(token.id) THEN 200 ELSE 500,
                       token.id, 0, NoSuchId)
       /\ gate' = Gate("authenticateHost", token, TRUE, TRUE)
       /\ UNCHANGED <<properties, bookings, reviews, intents, req, users, hosts, listed,
                      found, issued>>
  ELSE Deny("authenticateHost", token, "hostProperties")

-----------------------------------------------------------------------------
(* Accounts: registrations and logins interleave, an operator gives an     *)
(* established account the admin role, and the tokens issued are presented *)
(* to a route of each guard.                                               *)

NewEmails == {"n1"}

RegisteringNow(u) == \E s \in Slots : req[s].kind = "register" /\ req[s].caller = u

\* the role of a stored user is set to admin outside the routes
PromoteToAdmin(u) ==
  /\ u \in DOMAIN users
  /\ users[u] # "admin"
  /\ ~RegisteringNow(u)
  /\ users' = [users EXCEPT ![u] = "admin"]
  /\ last' = Resp("promote", 0, u, 0, NoSuchId)
  /\ UNCHANGED <<properties, bookings, reviews, intents, req, hosts, listed, gate, found, issued>>

AuthInit ==
  /\ InitStore
  /\ InitAccounts
  /\ properties = SeedProperties

DoRegisterFind ==
  \E s \in Slots, email \in NewEmails \cup {"g1"}, valid \in BOOLEAN :
    RegisterFind(s, email, valid)

DoRegisterSave == \E s \in Slots, uniqueEmails \in BOOLEAN : RegisterSave(s, uniqueEmails)

DoRegisterSend == \E s \in Slots, emailOk \in BOOLEAN : RegisterSend(s, emailOk)

DoLogin ==
  \E email \in NewEmails \cup {"a1", "gone"}, passwordOk \in BOOLEAN : Login(email, passwordOk)

DoPromote == \E u \in NewEmails : PromoteToAdmin(u)

DoGetMe == \E token \in issued : GetMe(token)

DoHostListProperties == \E token \in issued : HostListProperties(token)

DoAdminList == \E token \in issued : AdminHosts(token, 1, 10)

AuthNext ==
  \/ DoRegisterFind
  \/ DoRegisterSave
  \/ DoRegisterSend
  \/ DoLogin
  \/ DoPromote
  \/ DoGetMe
  \/ DoHostListProperties
  \/ DoAdminList

AuthSpec == AuthInit /\ [][AuthNext]_vars

\* the step answers a register request whose handler was waiting for the
\* email send
SendAnswered(code) ==
  /\ last'.op = "register" /\ last'.code = code
  /\ \E s \in Slots :
       /\ req[s].kind = "register" /\ req[s].pc = "email"
       /\ req[s].caller = last'.caller
       /\ req'[s].pc = "idle"

\* C21: register stores the user before it sends the verification email.  A
\* failed send is answered 500 with no token while the user stays stored;
\* stored users are never removed; a register request arriving for a stored
\* email is answered 400 and starts no handler; and register returns a token
\* only from the handler that stored the user itself, when its send
\* succeeded.
C21_UserStoredBeforeEmail ==
  [][/\ SendAnswered(500) =>
          /\ last'.caller \in DOMAIN users'
          /\ users' = users
          /\ last'.token = NoToken
          /\ issued' = issued
     /\ \A u \in DOMAIN users : u \in DOMAIN users'
     /\ \A s \in Slots :
          (req[s].pc = "idle" /\ req'[s].kind = "register") =>
            req'[s].caller \notin DOMAIN users
     /\ (last'.op = "register" /\ last'.code = 201) =>
          /\ SendAnswered(201)
          /\ last'.caller \in DOMAIN users
          /\ last'.token = [id |-> last'.caller, secret |-> "user"]
     /\ (last'.op = "register" /\ last'.caller \in DOMAIN users /\ ~SendAnswered(last'.code)
           /\ \A s \in Slots : req[s].kind = "register" => req'[s] = req[s]) =>
          /\ last'.code = 400
          /\ UNCHANGED <<users, issued, req>>]_vars

\* a retry answered 400 for a stored user that holds no token: every handler
\* has finished and no login took place, so its registration failed
C21_Witness ==
  /\ last.op = "register"
  /\ last.code = 400
  /\ last.caller \in NewEmails
  /\ last.caller \in DOMAIN users
  /\ \A s \in Slots : req[s].pc = "idle"
  /\ \A t \in issued : t.id # last.caller

\* the step is a request to one of the guarded routes
GuardRan == last'.op \in {"me", "hostProperties", "hostList"}

====
